---- MODULE Spec2Model ----
(***************************************************************************)
(* Model of check_dell_s_series.py: the three evaluation functions         *)
(* get_snmp_oper_status, get_system_info and get_temperatures, and the     *)
(* command-line driver get_args / main.                                    *)
(*                                                                         *)
(* Values the SNMP session hands back are modelled as the decimal text the *)
(* device sends (a TLA+ string) or the missing value None.  Findings and   *)
(* metrics are the very strings the f-strings of the source build.         *)
(*                                                                         *)
(* Spec      calls one evaluation function with arbitrary arguments.       *)
(* MainSpec  runs main: get_args, the mode dispatch, the evaluation, the   *)
(*           output line and sys.exit.                                     *)
(***************************************************************************)
EXTENDS Integers, Sequences, FiniteSets, TLC

VARIABLES pc, fn, hw_type, warn, crit, resp, vals, index, ret_code, count_fail,
          messages, perf_data, ret,
          mode, arg_warning, arg_critical, m_ret_code, msg, m_perf_data, output,
          exit_code

vars == <<pc, fn, hw_type, warn, crit, resp, vals, index, ret_code, count_fail,
          messages, perf_data, ret,
          mode, arg_warning, arg_critical, m_ret_code, msg, m_perf_data, output,
          exit_code>>

locals == <<index, ret_code, count_fail, messages, perf_data>>

mainvars == <<mode, arg_warning, arg_critical, m_ret_code, msg, m_perf_data,
              output, exit_code>>

-----------------------------------------------------------------------------
(* Bounds of the model *)

\* longest reply of a walk
MaxReadings == 3

\* warn / crit counts handed to get_snmp_oper_status range over 0..MaxCount
MaxCount == 2

\* largest integer int() has to parse
MaxInt == 70

-----------------------------------------------------------------------------
(* Python values *)

\* the missing value of a varbind the session could not fetch
None == "<None>"

\* int(s): the integer whose decimal text is s
int(s) == CHOOSE n \in 0..MaxInt : ToString(n) = s

\* str(n) of an integer
str(n) == ToString(n)

\* "sep".join(seq)
RECURSIVE join(_, _)
join(sep, seq) ==
    IF Len(seq) = 0 THEN ""
    ELSE IF Len(seq) = 1 THEN seq[1]
    ELSE seq[1] \o sep \o join(sep, Tail(seq))

\* sum(map(int, seq))
RECURSIVE sum(_)
sum(seq) == IF Len(seq) = 0 THEN 0 ELSE int(seq[1]) + sum(Tail(seq))

\* list.insert(0, x)
insert0(seq, x) == <<x>> \o seq

\* str(num / den) of Python's true division, for the quotients that have one
\* decimal digit (den = 2 here: two temperature varbinds)
str_div(num, den) ==
    str(num \div den) \o "." \o str((10 * (num % den)) \div den)

\* "None in vals" after the list of decoded values is built; b.decode() on a
\* missing value raises AttributeError before the test is reached
decode_raises(reply) == \E i \in 1..Len(reply) : reply[i] = None

-----------------------------------------------------------------------------
(* Lookup tables *)

nagiosStatus(code) ==
    CASE code = 0 -> "OK"
      [] code = 1 -> "WARNING"
      [] code = 2 -> "CRITICAL"
      [] code = 3 -> "UNKNOWN"
      [] OTHER -> "None"

\* Os10CmnOperStatus.get(key), formatted in an f-string
Os10CmnOperStatus(key) ==
    CASE key = "1" -> "up"
      [] key = "2" -> "down"
      [] key = "3" -> "testing"
      [] key = "4" -> "unknown"
      [] key = "5" -> "dormant"
      [] key = "6" -> "notPresent"
      [] key = "7" -> "lowerLayerDown"
      [] key = "8" -> "failed"
      [] OTHER -> "None"

\* Os10ChassisDefType.get(key), for the chassis types the model draws
Os10ChassisDefType(key) ==
    CASE key = "2" -> "s4048on"
      [] key = "9999" -> "unknown"
      [] OTHER -> "None"

\* Os10CardOperStatus.get(key)
Os10CardOperStatus(key) ==
    CASE key = "1" -> "ready"
      [] key = "2" -> "cardMisMatch"
      [] key = "3" -> "cardProblem"
      [] key = "4" -> "diagMode"
      [] key = "5" -> "cardAbsent"
      [] key = "6" -> "offline"
      [] OTHER -> "None"

-----------------------------------------------------------------------------
(* The Reading Source: what snmp_session.walk / snmp_session.get can reply *)

\* raw operational-status values of one walked instance
OperRaw == {"1", "2", "4", "9"}

\* a walk replies with nothing, or with one entry per instance found, an
\* entry being the value's text or missing
WalkReplies ==
    UNION {[1..n -> OperRaw \cup {None}] : n \in 0..MaxReadings}

\* a get replies with nothing, or with one entry per varbind asked for
GetReplies(fields) ==
    {<<>>} \cup {r \in [1..Len(fields) -> UNION {fields[i] : i \in 1..Len(fields)}] :
                    \A i \in 1..Len(fields) : r[i] \in fields[i]}

\* temperatures the device reports, as text
TempRaw == {"30", "35", "50", "55", "60", "65"}

\* chassis temp., card temp.
TempFields == <<TempRaw \cup {None}, TempRaw \cup {None}>>

\* sysName, sysObjectId, sysDescr
IdentityFields ==
    <<{"sw1", None}, {".1.3.6.1.4.1.674.11000.5000.100.2.1.7", None},
      {"Dell EMC Networking OS10 Enterprise", None}>>

\* chassis type, hw rev., p/n, service tag
ChassisFields ==
    <<{"2", "9999", "77", None}, {"A01", None}, {"0XYZ12", None},
      {"ABC1234", None}>>

\* card descr, h/w rev., P/N, status, Service Tag
CardFields ==
    <<{"S4048-ON", None}, {"A01", None}, {"0CARD1", None},
      {"1", "2", "3", "4", "5", "6", "7", None}, {"CARD123", None}>>

-----------------------------------------------------------------------------
(* What a function returns: the tuple (ret_code, messages, perf_data) *)

Verdict(code, msgs, perf) == [code |-> code, msgs |-> msgs, perf |-> perf]

\* no value returned yet
NoVerdict == Verdict(-1, <<>>, <<>>)

\* return 3, ['Unable to get SNMP metrics from server !'], []
UnableVerdict == Verdict(3, <<"Unable to get SNMP metrics from server !">>, <<>>)

\* ret_code = 0; messages = []; count_fail = 0; perf_data = []
FreshLocals ==
    /\ index' = 1
    /\ ret_code' = 0
    /\ count_fail' = 0
    /\ messages' = <<>>
    /\ perf_data' = <<>>

-----------------------------------------------------------------------------
(* get_snmp_oper_status *)

\* variant of OperMark: a reading other than 4 sets the severity back to OK
OperMark_reset(rc, status) == IF status = 4 THEN 3 ELSE 0

\* the status test of one loop iteration: code 4 marks the evaluation UNKNOWN
OperMark(rc, status) == IF status = 4 THEN 3 ELSE rc

\* variant of OperCount: the test for "up" is inverted
OperCount_inverted(cf, status) ==
    IF status = 4 THEN cf ELSE IF status = 1 THEN cf + 1 ELSE cf

\* the failure counter of one loop iteration
OperCount(cf, status) ==
    IF status = 4 THEN cf ELSE IF status # 1 THEN cf + 1 ELSE cf

\* the per-component finding
OperFinding(hw, i, status) ==
    hw \o " #" \o str(i) \o " reported as " \o Os10CmnOperStatus(str(status))

\* variant of OperSeverity: the thresholds are the counts at which to escalate
OperSeverity_conventional(rc, cf, w, c) ==
    IF cf >= c THEN 2 ELSE IF cf >= w THEN 1 ELSE rc

\* the two threshold comparisons, the CRITICAL one evaluated last
OperSeverity(rc, cf, w, c) ==
    LET r1 == IF cf < w THEN 1 ELSE rc
    IN  IF cf < c THEN 2 ELSE r1

\* the summary inserted when no reading failed
OperAllOk(hw) == "All " \o hw \o " (s) OK"

\* the summary inserted when some reading failed
OperFailed(hw) == "Failed or error found for " \o hw

\* entry: the walk and the test for an empty reply
OperStatusEntry(hw, w, c) ==
    /\ fn' = "oper"
    /\ hw_type' = hw
    /\ warn' = w
    /\ crit' = c
    /\ FreshLocals
    /\ \E reply \in WalkReplies :
         /\ resp' = reply
         /\ vals' = reply
         /\ IF Len(reply) = 0
            THEN pc' = "returned" /\ ret' = UnableVerdict
            ELSE pc' = "oper_loop" /\ ret' = NoVerdict

\* one iteration of the loop over vals, or the step out of the loop
OperLoop ==
    /\ pc = "oper_loop"
    /\ IF index > Len(vals)
       THEN /\ pc' = "oper_end"
            /\ UNCHANGED <<locals, ret>>
       ELSE IF vals[index] = None
       THEN /\ pc' = "fault"
            /\ UNCHANGED <<locals, ret>>
       ELSE LET status == int(vals[index])
            IN  /\ ret_code' = OperMark(ret_code, status)
                /\ count_fail' = OperCount(count_fail, status)
                /\ messages' = Append(messages, OperFinding(hw_type, index, status))
                /\ index' = index + 1
                /\ pc' = "oper_loop"
                /\ UNCHANGED <<perf_data, ret>>
    /\ UNCHANGED <<fn, hw_type, warn, crit, resp, vals, mainvars>>

\* the code after the loop, to the return
OperEnd ==
    /\ pc = "oper_end"
    /\ IF ret_code # 3
       THEN IF count_fail = 0
            THEN /\ ret_code' = 0
                 /\ messages' = insert0(messages, OperAllOk(hw_type))
            ELSE /\ ret_code' = OperSeverity(ret_code, count_fail, warn, crit)
                 /\ messages' = insert0(messages, OperFailed(hw_type))
       ELSE UNCHANGED <<ret_code, messages>>
    /\ ret' = Verdict(ret_code', messages', <<>>)
    /\ pc' = "returned"
    /\ UNCHANGED <<fn, hw_type, warn, crit, resp, vals, index, count_fail,
                   perf_data, mainvars>>

-----------------------------------------------------------------------------
(* get_temperatures *)

\* warn / crit temperatures handed to get_temperatures
TempThresholds == {40, 50, 60}

\* variant of TempArm: the comparisons are not strict
TempArm_inclusive(t, rc, w, c) ==
    IF t >= c /\ rc < 2 THEN "critical"
    ELSE IF t >= w /\ rc < 1 THEN "warning"
    ELSE "plain"

\* which arm of the if / elif / else one reading takes
TempArm(t, rc, w, c) ==
    IF t > c /\ rc < 2 THEN "critical"
    ELSE IF t > w /\ rc < 1 THEN "warning"
    ELSE "plain"

TempCritical(temp, c) ==
    "Temperature sensor at " \o temp \o "°C exceeds critical threshold ("
        \o str(c) \o "°C)"

TempWarning(temp, w) ==
    "Temperature sensor at " \o temp \o "°C exceeds warning threshold ("
        \o str(w) \o "°C)"

TempPlain(temp) == "Temperature sensor at " \o temp \o "°C"

TempMetric(i, temp, w, c) ==
    "temp" \o str(i) \o "=" \o temp \o "°C;" \o str(w) \o ";" \o str(c)

\* variant of TempAverage: floor division
TempAverage_floor(v) == str(sum(v) \div Len(v))

\* avg = sum(map(int, vals)) / len(vals), formatted by str(avg)
TempAverage(v) == str_div(sum(v), Len(v))

TempAllOk(v) ==
    "All temperature sensors OK with an average of " \o TempAverage(v) \o "°C"

\* entry: the get, the decoding of the reply and the test for missing data
TemperaturesEntry(w, c) ==
    /\ fn' = "temp"
    /\ hw_type' = ""
    /\ warn' = w
    /\ crit' = c
    /\ FreshLocals
    /\ \E reply \in GetReplies(TempFields) :
         /\ resp' = reply
         /\ IF decode_raises(reply)
            THEN pc' = "fault" /\ vals' = <<>> /\ ret' = NoVerdict
            ELSE /\ vals' = reply
                 /\ IF Len(reply) = 0 \/ \E i \in 1..Len(reply) : reply[i] = None
                    THEN pc' = "returned" /\ ret' = UnableVerdict
                    ELSE pc' = "temp_loop" /\ ret' = NoVerdict

\* one iteration of the loop over vals, or the step out of the loop
TempLoop ==
    /\ pc = "temp_loop"
    /\ IF index > Len(vals)
       THEN /\ pc' = "temp_end"
            /\ UNCHANGED locals
       ELSE LET temp == vals[index]
                arm == TempArm(int(temp), ret_code, warn, crit)
            IN  /\ pc' = "temp_loop"
                /\ index' = index + 1
                /\ UNCHANGED count_fail
                /\ CASE arm = "critical" ->
                          /\ ret_code' = 2
                          /\ messages' = Append(messages, TempCritical(temp, crit))
                          /\ UNCHANGED perf_data
                     [] arm = "warning" ->
                          /\ ret_code' = 1
                          /\ messages' = Append(messages, TempWarning(temp, warn))
                          /\ UNCHANGED perf_data
                     [] OTHER ->
                          /\ UNCHANGED ret_code
                          /\ messages' = Append(messages, TempPlain(temp))
                          /\ perf_data' =
                               Append(perf_data, TempMetric(index, temp, warn, crit))
    /\ UNCHANGED <<fn, hw_type, warn, crit, resp, vals, ret, mainvars>>

\* the code after the loop, to the return
TempEnd ==
    /\ pc = "temp_end"
    /\ IF ret_code = 0
       THEN messages' = insert0(messages, TempAllOk(vals))
       ELSE UNCHANGED messages
    /\ ret' = Verdict(ret_code, messages', perf_data)
    /\ pc' = "returned"
    /\ UNCHANGED <<fn, hw_type, warn, crit, resp, vals, index, ret_code,
                   count_fail, perf_data, mainvars>>

-----------------------------------------------------------------------------
(* get_system_info *)

IdentityFinding(v) == v[1] \o " ( " \o v[2] \o " )\n" \o v[3]

ChassisFinding(v) ==
    "Chassis: " \o Os10ChassisDefType(v[1]) \o " (rev. " \o v[2] \o ") - p/n: "
        \o v[3] \o " - ServiceTag: " \o v[4]

CardFinding(v) ==
    "Card: " \o v[1] \o " (rev. " \o v[2] \o ") - p/n: " \o v[3]
        \o " - ServiceTag: " \o v[5] \o " - Status: " \o Os10CardOperStatus(v[4])

\* variant of CardSeverity: offline (6) is not a WARNING state
CardSeverity_no_offline(rc, card_status) ==
    IF card_status # 1
    THEN IF card_status = 4 /\ rc < 1 THEN 1 ELSE 2
    ELSE rc

\* the severity the card's operational status gives
CardSeverity(rc, card_status) ==
    IF card_status # 1
    THEN IF (card_status = 4 \/ card_status = 6) /\ rc < 1 THEN 1 ELSE 2
    ELSE rc

\* entry: sysName, sysObjectId, sysDescr
SystemInfoEntry ==
    /\ fn' = "sys"
    /\ hw_type' = ""
    /\ warn' = warn
    /\ crit' = crit
    /\ index' = 1
    /\ ret_code' = 0
    /\ count_fail' = 0
    /\ perf_data' = <<>>
    /\ \E reply \in GetReplies(IdentityFields) :
         /\ resp' = reply
         /\ IF decode_raises(reply)
            THEN pc' = "fault" /\ vals' = <<>> /\ messages' = <<>> /\ ret' = NoVerdict
            ELSE /\ vals' = reply
                 /\ IF Len(reply) = 0 \/ \E i \in 1..Len(reply) : reply[i] = None
                    THEN /\ pc' = "returned"
                         /\ ret' = UnableVerdict
                         /\ messages' = <<>>
                    ELSE /\ pc' = "sys_chassis"
                         /\ messages' = <<IdentityFinding(reply)>>
                         /\ ret' = NoVerdict

\* chassis type, hw rev., p/n, service tag
SysChassis ==
    /\ pc = "sys_chassis"
    /\ \E reply \in GetReplies(ChassisFields) :
         /\ resp' = reply
         /\ IF decode_raises(reply)
            THEN pc' = "fault" /\ UNCHANGED <<vals, messages, ret>>
            ELSE /\ vals' = reply
                 /\ IF Len(reply) = 0 \/ \E i \in 1..Len(reply) : reply[i] = None
                    THEN /\ pc' = "returned"
                         /\ ret' = UnableVerdict
                         /\ UNCHANGED messages
                    ELSE /\ pc' = "sys_card"
                         /\ messages' = Append(messages, ChassisFinding(reply))
                         /\ UNCHANGED ret
    /\ UNCHANGED <<fn, hw_type, warn, crit, index, ret_code, count_fail,
                   perf_data, mainvars>>

\* card descr, h/w rev., P/N, status, Service Tag; the severity; the return
SysCard ==
    /\ pc = "sys_card"
    /\ \E reply \in GetReplies(CardFields) :
         /\ resp' = reply
         /\ IF decode_raises(reply)
            THEN pc' = "fault" /\ UNCHANGED <<vals, messages, ret, ret_code>>
            ELSE /\ vals' = reply
                 /\ pc' = "returned"
                 /\ IF Len(reply) = 0 \/ \E i \in 1..Len(reply) : reply[i] = None
                    THEN ret' = UnableVerdict /\ UNCHANGED <<messages, ret_code>>
                    ELSE /\ messages' = Append(messages, CardFinding(reply))
                         /\ ret_code' = CardSeverity(ret_code, int(reply[4]))
                         /\ ret' = Verdict(ret_code', messages', <<>>)
    /\ UNCHANGED <<fn, hw_type, warn, crit, index, count_fail, perf_data,
                   mainvars>>

-----------------------------------------------------------------------------
(* get_args and main *)

Modes == {"fans", "power", "health", "temp"}

\* values of -w / -c on the command line; 50 and 60 are the defaults
ArgValues == {40, 50, 60}

\* args.warning as get_args returns it
ArgsWarning(m, w) ==
    IF m = "fans" THEN 1 ELSE IF m = "power" THEN 0 ELSE w

\* variant of ArgsCritical: power mode tolerates one failed PSU less
ArgsCritical_power2(m, c) ==
    IF m = "fans" THEN 2 ELSE IF m = "power" THEN 2 ELSE c

\* args.critical as get_args returns it
ArgsCritical(m, c) ==
    IF m = "fans" THEN 2 ELSE IF m = "power" THEN 1 ELSE c

\* host, community, mode, warn, crit = get_args()
GetArgs ==
    /\ pc = "get_args"
    /\ warn' = ArgsWarning(mode, arg_warning)
    /\ crit' = ArgsCritical(mode, arg_critical)
    /\ pc' = "main"
    /\ UNCHANGED <<fn, hw_type, resp, vals, locals, ret, mainvars>>

MainFans ==
    /\ pc = "main"
    /\ mode = "fans"
    /\ OperStatusEntry("fan", warn, crit)
    /\ UNCHANGED mainvars

MainPower ==
    /\ pc = "main"
    /\ mode = "power"
    /\ OperStatusEntry("PSU", warn, crit)
    /\ UNCHANGED mainvars

MainTemp ==
    /\ pc = "main"
    /\ mode = "temp"
    /\ TemperaturesEntry(warn, crit)
    /\ UNCHANGED mainvars

MainHealth ==
    /\ pc = "main"
    /\ mode = "health"
    /\ SystemInfoEntry
    /\ UNCHANGED mainvars

\* the output line; sorted(perf_data) keeps the order of temp1, temp2, which
\* are appended by rising index
Output(code, msgs, perf) ==
    nagiosStatus(code) \o ": "
        \o (IF Len(msgs) > 0 THEN join("\n", msgs) ELSE "")
        \o (IF Len(perf) > 0 THEN " | " \o join(" ", perf) ELSE "")

\* ret_code, msg, perf_data = <the evaluation>; print(output); sys.exit(ret_code)
MainExit ==
    /\ pc = "returned"
    /\ m_ret_code' = ret.code
    /\ msg' = ret.msgs
    /\ m_perf_data' = ret.perf
    /\ output' = Output(ret.code, ret.msgs, ret.perf)
    /\ exit_code' = ret.code
    /\ pc' = "exit"
    /\ UNCHANGED <<fn, hw_type, warn, crit, resp, vals, locals, ret, mode,
                   arg_warning, arg_critical>>

-----------------------------------------------------------------------------
(* Direct calls of the evaluation functions, with any arguments *)

CallOperStatus ==
    /\ pc = "call"
    /\ \E hw \in {"fan", "PSU"}, w \in 0..MaxCount, c \in 0..MaxCount :
         OperStatusEntry(hw, w, c)
    /\ UNCHANGED mainvars

CallTemperatures ==
    /\ pc = "call"
    /\ \E w \in TempThresholds, c \in TempThresholds : TemperaturesEntry(w, c)
    /\ UNCHANGED mainvars

CallSystemInfo ==
    /\ pc = "call"
    /\ SystemInfoEntry
    /\ UNCHANGED mainvars

-----------------------------------------------------------------------------
(* Specifications *)

InitLocals ==
    /\ fn = ""
    /\ hw_type = ""
    /\ warn = 0
    /\ crit = 0
    /\ resp = <<>>
    /\ vals = <<>>
    /\ index = 1
    /\ ret_code = 0
    /\ count_fail = 0
    /\ messages = <<>>
    /\ perf_data = <<>>
    /\ ret = NoVerdict

\* ret_code = 3; msg = []; perf_data = [] of main, nothing printed, not exited
InitMain ==
    /\ m_ret_code = 3
    /\ msg = <<>>
    /\ m_perf_data = <<>>
    /\ output = ""
    /\ exit_code = -1

Init ==
    /\ pc = "call"
    /\ InitLocals
    /\ InitMain
    /\ mode = ""
    /\ arg_warning = 50
    /\ arg_critical = 60

Next ==
    \/ CallOperStatus
    \/ OperLoop
    \/ OperEnd
    \/ CallTemperatures
    \/ TempLoop
    \/ TempEnd
    \/ CallSystemInfo
    \/ SysChassis
    \/ SysCard

Spec == Init /\ [][Next]_vars

MainInit ==
    /\ pc = "get_args"
    /\ InitLocals
    /\ InitMain
    /\ mode \in Modes
    /\ arg_warning \in ArgValues
    /\ arg_critical \in ArgValues

MainNext ==
    \/ GetArgs
    \/ MainFans
    \/ MainPower
    \/ MainTemp
    \/ MainHealth
    \/ OperLoop
    \/ OperEnd
    \/ TempLoop
    \/ TempEnd
    \/ SysChassis
    \/ SysCard
    \/ MainExit

MainSpec == MainInit /\ [][MainNext]_vars

-----------------------------------------------------------------------------
(* Vocabulary of the properties *)

\* every entry of the reply is a value
Complete(v) == \A i \in 1..Len(v) : v[i] # None

\* the reply holds no data, or an entry is missing
Incomplete(v) == Len(v) = 0 \/ ~Complete(v)

\* some reading is code 4
HasUnknown(v) == \E i \in 1..Len(v) : v[i] = "4"

\* the readings that are neither up (1) nor unknown (4)
Failures(v) == Cardinality({i \in 1..Len(v) : v[i] \notin {"1", "4"}})

\* get_snmp_oper_status has returned the verdict of a non-empty list of codes
OperReturned ==
    /\ pc = "returned"
    /\ fn = "oper"
    /\ Len(vals) > 0
    /\ Complete(vals)

\* get_temperatures has returned the verdict of a complete list of readings
TempReturned ==
    /\ pc = "returned"
    /\ fn = "temp"
    /\ Len(vals) > 0
    /\ Complete(vals)

\* the elements of a list
Range(seq) == {seq[i] : i \in 1..Len(seq)}

-----------------------------------------------------------------------------
(* C1 *)

\* C1: a status-code list that contains a code 4 is evaluated to UNKNOWN for
\* every warn / crit pair: once an iteration has read a 4 the severity is 3
\* in every later state of the call, and the findings returned are the
\* per-component findings alone, with no summary at position 0.
C1_UnknownIsSticky ==
    fn = "oper" =>
      /\ (pc \in {"oper_loop", "oper_end"}
            /\ \E i \in 1..(index - 1) : vals[i] = "4")
           => ret_code = 3
      /\ (OperReturned /\ HasUnknown(vals)) =>
           /\ ret.code = 3
           /\ Len(ret.msgs) = Len(vals)
           /\ ret.msgs[1] \notin {OperAllOk(hw_type), OperFailed(hw_type)}
           /\ ret.perf = <<>>

C1_Witness ==
    /\ OperReturned
    /\ vals = <<"4", "2", "1">>
    /\ warn = 1
    /\ crit = 2
    /\ ret.code = 3

-----------------------------------------------------------------------------
(* C2 *)

\* C2 as stated: every non-empty status-code list in which no reading
\* increments the failure counter is evaluated to OK, with the "All ... OK"
\* summary at position 0 and one finding per reading after it.
C2_ZeroFailuresOk ==
    (OperReturned /\ Failures(vals) = 0) =>
      /\ ret.code = 0
      /\ ret.msgs[1] = "All " \o hw_type \o " (s) OK"
      /\ Len(ret.msgs) = Len(vals) + 1

\* C2 amended: every non-empty status-code list in which every reading is
\* code 1 (no failure and no code 4) is evaluated to OK for every warn / crit
\* pair, findings = the "All ... OK" summary followed by "<label> #i reported
\* as up" for i = 1, 2, ... in index order; no metrics.
C2_AllUpOk ==
    (OperReturned /\ Failures(vals) = 0 /\ ~HasUnknown(vals)) =>
      /\ ret.code = 0
      /\ ret.msgs =
           <<"All " \o hw_type \o " (s) OK">>
             \o [i \in 1..Len(vals) |->
                   hw_type \o " #" \o ToString(i) \o " reported as up"]
      /\ ret.perf = <<>>

C2_Witness ==
    /\ OperReturned
    /\ vals = <<"1", "1", "1">>
    /\ hw_type = "PSU"
    /\ warn = 0
    /\ crit = 1
    /\ ret.msgs[1] = "All PSU (s) OK"
    /\ ret.msgs[4] = "PSU #3 reported as up"

-----------------------------------------------------------------------------
(* C3 *)

\* C3: with warn = 1 and crit = 2 every reading list without code 4 that
\* has exactly one failure is evaluated to CRITICAL (2), not WARNING; the
\* readings [1,1,2] of label fan give the four findings of the example and
\* no metrics.
C3_OneFailureIsCritical ==
    (OperReturned /\ warn = 1 /\ crit = 2 /\ ~HasUnknown(vals)
       /\ Failures(vals) = 1) =>
      /\ ret.code = 2
      /\ (vals = <<"1", "1", "2">> /\ hw_type = "fan") =>
           /\ ret.msgs = <<"Failed or error found for fan",
                           "fan #1 reported as up",
                           "fan #2 reported as up",
                           "fan #3 reported as down">>
           /\ ret.perf = <<>>

C3_Witness ==
    /\ OperReturned
    /\ warn = 1
    /\ crit = 2
    /\ vals = <<"1", "1", "2">>
    /\ hw_type = "fan"
    /\ ret.code = 2

-----------------------------------------------------------------------------
(* C4 *)

\* C4: for a reading list without code 4 and with f > 0 failures: f >= warn
\* and f >= crit give severity OK although the finding at position 0 is
\* "Failed or error found for <label>"; the severity is WARNING only when
\* f < warn and f >= crit; it is CRITICAL exactly when f < crit.
C4_ThresholdPolicy ==
    (OperReturned /\ ~HasUnknown(vals) /\ Failures(vals) > 0) =>
      LET f == Failures(vals)
      IN  /\ ret.msgs[1] = "Failed or error found for " \o hw_type
          /\ (f >= warn /\ f >= crit) => ret.code = 0
          /\ ret.code = 1 => (f < warn /\ f >= crit)
          /\ ret.code = 2 <=> f < crit

C4_Witness ==
    /\ OperReturned
    /\ vals = <<"2", "1", "9">>
    /\ warn = 1
    /\ crit = 2
    /\ ret.code = 0
    /\ ret.msgs[1] = "Failed or error found for " \o hw_type

-----------------------------------------------------------------------------
(* C5 *)

\* C5: in get_temperatures no reading above the warning threshold or above
\* the critical threshold gets a metric entry or the plain finding
\* "Temperature sensor at X°C", whatever readings precede it.  (Before the
\* summary is inserted, finding i is the finding of reading i.)
C5_NoMetricForBreach ==
    (fn = "temp" /\ pc \in {"temp_loop", "temp_end"}) =>
      \A i \in 1..(index - 1) :
        (int(vals[i]) > warn \/ int(vals[i]) > crit) =>
          /\ messages[i] # "Temperature sensor at " \o vals[i] \o "°C"
          /\ TempMetric(i, vals[i], warn, crit) \notin Range(perf_data)

-----------------------------------------------------------------------------
(* C6 *)

\* the finding at position 0 reports the arithmetic mean of the readings: a
\* decimal q.d with (10q + d) / 10 = sum / count
ReportsExactMean(finding, v) ==
    \E q \in 0..MaxInt, d \in 0..9 :
      /\ finding = "All temperature sensors OK with an average of "
                     \o ToString(q) \o "." \o ToString(d) \o "°C"
      /\ (10 * q + d) * Len(v) = 10 * sum(v)

\* C6 as stated: readings that are all <= warn are evaluated to OK, for
\* every crit, with the summary of the exact mean at position 0.
C6_BelowWarnOk ==
    (TempReturned /\ \A i \in 1..Len(vals) : int(vals[i]) <= warn) =>
      /\ ret.code = 0
      /\ ReportsExactMean(ret.msgs[1], vals)

\* C6 amended: readings that are all <= warn and all <= crit are evaluated
\* to OK, with the summary of the exact mean at position 0, followed by one
\* plain finding per reading, and one metric per reading; [30,35] with warn
\* 50 and crit 60 give the mean 32.5 and the metrics temp1 and temp2.
C6_BelowBothOk ==
    (TempReturned /\ \A i \in 1..Len(vals) :
                       int(vals[i]) <= warn /\ int(vals[i]) <= crit) =>
      /\ ret.code = 0
      /\ ReportsExactMean(ret.msgs[1], vals)
      /\ Len(ret.msgs) = Len(vals) + 1
      /\ Len(ret.perf) = Len(vals)
      /\ (vals = <<"30", "35">> /\ warn = 50 /\ crit = 60) =>
           /\ ret.msgs[1] = "All temperature sensors OK with an average of 32.5°C"
           /\ ret.perf = <<"temp1=30°C;50;60", "temp2=35°C;50;60">>

C6_Witness ==
    /\ TempReturned
    /\ vals = <<"30", "35">>
    /\ warn = 50
    /\ crit = 60
    /\ ret.code = 0

-----------------------------------------------------------------------------
(* C7 *)

\* the iteration of the loop that reads a value equal to the warning threshold
AtWarnThreshold ==
    /\ pc = "temp_loop"
    /\ index <= Len(vals)
    /\ int(vals[index]) = warn

\* the iteration leaves the severity as it is, adds the plain finding and
\* not the warning finding, and emits the metric of the reading
NoWarningRaised ==
    /\ ret_code' = ret_code
    /\ messages' = Append(messages, "Temperature sensor at " \o vals[index] \o "°C")
    /\ perf_data' =
         Append(perf_data,
                "temp" \o ToString(index) \o "=" \o vals[index] \o "°C;"
                  \o ToString(warn) \o ";" \o ToString(crit))

\* C7 as stated: a reading equal to the warning threshold, at any position
\* and for any crit, leaves the severity as it is and gets a metric entry.
C7_AtWarnAnyCrit == [][AtWarnThreshold => NoWarningRaised]_vars

\* C7 amended: a reading equal to the warning threshold, at any position and
\* for any crit >= warn, leaves the severity as it is, gets the plain finding
\* and a metric entry.
C7_AtWarnNoWarning == [][(AtWarnThreshold /\ warn <= crit) => NoWarningRaised]_vars

C7_Witness ==
    /\ fn = "temp"
    /\ pc = "temp_loop"
    /\ index = 3
    /\ vals = <<"65", "50">>
    /\ warn = 50
    /\ crit = 60
    /\ ret_code = 2
    /\ perf_data = <<"temp2=50°C;50;60">>

-----------------------------------------------------------------------------
(* C8 *)

\* C8: whenever a walk or a get replies with no data or with a missing
\* entry, the call does not end in a raised fault, and what it returns is
\* the UNKNOWN verdict with the one "Unable to ..." finding and no metrics.
C8_MissingDataIsUnknown ==
    (fn # "" /\ Incomplete(resp)) =>
      /\ pc # "fault"
      /\ pc = "returned" =>
           /\ ret.code = 3
           /\ ret.msgs = <<"Unable to get SNMP metrics from server !">>
           /\ ret.perf = <<>>

-----------------------------------------------------------------------------
(* C9 *)

\* get_system_info has returned after three complete gets
HealthReturned ==
    /\ pc = "returned"
    /\ fn = "sys"
    /\ Len(resp) = 5
    /\ Complete(resp)

\* C9: with the three gets complete the severity is a function of the card
\* status alone (1: OK; 4 and 6: WARNING; any other: CRITICAL), the findings
\* are the identity, chassis and card findings in this order and nothing
\* else, and there are no metrics.
C9_CardStatusDrivesSeverity ==
    HealthReturned =>
      /\ ret.code = (IF resp[4] = "1" THEN 0
                     ELSE IF resp[4] \in {"4", "6"} THEN 1 ELSE 2)
      /\ \E idv \in GetReplies(IdentityFields), chv \in GetReplies(ChassisFields) :
           /\ Len(idv) > 0 /\ Complete(idv)
           /\ Len(chv) > 0 /\ Complete(chv)
           /\ ret.msgs = <<IdentityFinding(idv), ChassisFinding(chv),
                           CardFinding(resp)>>
      /\ ret.perf = <<>>

C9_Witness ==
    /\ HealthReturned
    /\ resp[4] = "6"
    /\ ret.code = 1
    /\ Len(ret.msgs) = 3
    /\ ret.msgs[2] = "Chassis: s4048on (rev. A01) - p/n: 0XYZ12 - ServiceTag: ABC1234"
    /\ ret.msgs[3] =
         "Card: S4048-ON (rev. A01) - p/n: 0CARD1 - ServiceTag: CARD123 - Status: offline"

-----------------------------------------------------------------------------
(* C10 *)

\* main has exited from a fans or power check
DiscreteExit ==
    /\ pc = "exit"
    /\ mode \in {"fans", "power"}

\* C10 as stated: main never exits WARNING from a discrete check; power mode
\* exits OK or UNKNOWN; fans mode exits CRITICAL exactly when one fan fails
\* and no reading is code 4, and OK when two or more fans fail.
C10_DiscreteExitCodes ==
    DiscreteExit =>
      /\ exit_code # 1
      /\ mode = "power" => exit_code \in {0, 3}
      /\ mode = "fans" =>
           /\ exit_code = 2 <=> (Failures(vals) = 1 /\ ~HasUnknown(vals))
           /\ Failures(vals) >= 2 => exit_code = 0

\* C10 amended: as stated, but fans mode exits OK when two or more fans fail
\* and no reading is code 4.
C10_DiscreteExitCodesNoUnknown ==
    DiscreteExit =>
      /\ exit_code # 1
      /\ mode = "power" => exit_code \in {0, 3}
      /\ mode = "fans" =>
           /\ exit_code = 2 <=> (Failures(vals) = 1 /\ ~HasUnknown(vals))
           /\ (Failures(vals) >= 2 /\ ~HasUnknown(vals)) => exit_code = 0

C10_Witness ==
    /\ DiscreteExit
    /\ mode = "fans"
    /\ arg_warning = 50
    /\ vals = <<"2", "2", "1">>
    /\ exit_code = 0
    /\ output = "OK: Failed or error found for fan\nfan #1 reported as down\nfan #2 reported as down\nfan #3 reported as up"

====
